---- MODULE Spec2Model ----
(***************************************************************************)
(* The frame callback of bird_classify.py (main / user_callback) and the   *)
(* training helper do_training, as a state machine.                        *)
(*                                                                         *)
(* Time is the value of time.monotonic(), counted in ticks of              *)
(* 1/TicksPerSecond second.  Scores are the classifier's scores in         *)
(* hundredths (0.70 is 70).  Python's None is the string NoneVal.          *)
(***************************************************************************)
EXTENDS Integers, Sequences, FiniteSets, TLC

\* ------------------------------------------------------------------ bounds
TicksPerSecond == 10
MaxFrames == 2
MaxResults == 3

\* ------------------------------------------------------- program constants
PrintThreshold == 65
SaveThreshold == 70
SaveSeconds == 2
AlertSeconds == 900
GetClassesTopK == 1
DefaultTopK == 3

SaveInterval == SaveSeconds * TicksPerSecond
AlertInterval == AlertSeconds * TicksPerSecond

NoneVal == "<None>"

\* Python truthiness of an optional string argument (None and '' are falsy).
Truthy(v) == v # NoneVal /\ v # ""

\* Truthiness of a function's return value (None is falsy).
RetTruthy(v) == v = "True"

\* ------------------------------------------------------------ label file
\* The label map load_labels returns: class id -> label text.
labels ==
  <<"patio, terrace",
    "picket fence, paling",
    "bannister, banister, balustrade, balusters, handrail",
    "lumbermill, sawmill",
    "squirrel">>

\* A class id the label file does not list.
UnknownId == Len(labels) + 1

Scores == {PrintThreshold, SaveThreshold, SaveThreshold + 1}

\* What classify.get_classes(interpreter, top_k=1) can return: at most
\* GetClassesTopK pairs (class id, score).
RawResults ==
  UNION { [1..n -> (1..UnknownId) \X Scores] : n \in 0..GetClassesTopK }

\* ------------------------------------------------------------- the inputs
\* Time between the end of one callback and the start of the next, so that
\* with the inference time the cool-downs are met exactly or passed by a tick.
Gaps == {SaveInterval - 1, SaveInterval, AlertInterval - 1, AlertInterval}
InferDurations == {1}
SaveDurations == {0, 2}
SendDurations == {0, 3}
CredentialValues == {NoneVal, "", "tok"}

\* Outcomes of the storage write inside save_data and of client.send_message.
IoOutcomes(durations) == [ok : BOOLEAN, took : durations]

VARIABLES
  args,          \* the parsed command line (user_selections)
  client,        \* the Pushover client of main, or "unbound"
  clock,         \* time.monotonic() at the last read
  last_time, last_saveimg, last_alert, last_results,   \* main's nonlocals
  nframes,       \* callbacks run so far
  fx,            \* what the last callback read and did
  nbranch,       \* callbacks so far that entered the save-and-alert branch
  persisted,     \* tags (times) of the images written so far
  alerted,       \* times at which an alert was sent so far
  tr             \* a call of do_training: its arguments and return value

vars == <<args, client, clock, last_time, last_saveimg, last_alert,
          last_results, nframes, fx, nbranch, persisted, alerted, tr>>

\* ------------------------------------------------------------ do_training
LabelsOf(results) == [k \in 1..Len(results) |-> results[k][1]]
SetOf(seq) == {seq[k] : k \in 1..Len(seq)}

do_training_le(results, lastResults, top_k) ==
  LET shared_labels == SetOf(LabelsOf(results)) \cap SetOf(LabelsOf(lastResults))
  IN IF Cardinality(shared_labels) <= top_k THEN "True" ELSE "None"

do_training(results, lastResults, top_k) ==
  LET new_labels == LabelsOf(results)
      old_labels == LabelsOf(lastResults)
      shared_labels == SetOf(new_labels) \cap SetOf(old_labels)
  IN IF Cardinality(shared_labels) < top_k THEN "True" ELSE "None"

\* ------------------------------------------------------------------- main
\* main: the client is created only when both credentials are not None.
main_client(a) ==
  IF a.pushoverapitoken # NoneVal /\ a.pushoveruserkey # NoneVal
  THEN "Client" ELSE "unbound"

\* main: the clock value the three timers start from.
StartClock == 0

main_last_saveimg_never == StartClock - SaveInterval - 1

\* main: last_saveimg = time.monotonic() at startup.
main_last_saveimg == StartClock

\* main: last_alert = time.monotonic() at startup.
main_last_alert == StartClock

\* main: last_results = [('label', 0)]
main_last_results == << <<"label", 0>> >>

NoTime == StartClock - 1

NoFrame ==
  [raw |-> <<>>, start_time |-> NoTime, end_time |-> NoTime, results |-> <<>>,
   err |-> "none", printed |-> FALSE,
   save_now |-> NoTime, save_called |-> FALSE, saved |-> FALSE,
   alert_now |-> NoTime, alert_called |-> FALSE, sent |-> FALSE,
   pre_time |-> NoTime, pre_saveimg |-> NoTime, pre_alert |-> NoTime,
   pre_results |-> <<>>]

NoCall ==
  [results |-> <<>>, last_results |-> <<>>, top_k |-> DefaultTopK,
   ret |-> "pending"]

Init ==
  /\ args \in [print : BOOLEAN, training : BOOLEAN,
               pushoverapitoken : CredentialValues,
               pushoveruserkey : CredentialValues]
  /\ client = main_client(args)
  /\ clock = StartClock
  /\ last_time = StartClock
  /\ last_saveimg = main_last_saveimg
  /\ last_alert = main_last_alert
  /\ last_results = main_last_results
  /\ nframes = 0
  /\ fx = NoFrame
  /\ nbranch = 0
  /\ persisted = <<>>
  /\ alerted = <<>>
  /\ tr = NoCall

\* ---------------------------------------------------------- user_callback
\* results = [(labels[i], score) for i, score in results]
Labelled(raw) == \A k \in 1..Len(raw) : raw[k][1] \in DOMAIN labels
interpret(raw) == [k \in 1..Len(raw) |-> <<labels[raw[k][1]], raw[k][2]>>]

PrintGate_persist_tier(a, results) ==
  /\ a.print
  /\ results[1][1] # "patio, terrace"
  /\ results[1][1] # "picket fence, paling"
  /\ results[1][1] # "bannister, banister, balustrade, balusters, handrail"
  /\ results[1][1] # "lumbermill, sawmill"
  /\ results[1][2] > PrintThreshold

\* The condition of the print branch.
PrintGate(a, results) ==
  /\ a.print
  /\ results[1][1] # "patio, terrace"
  /\ results[1][1] # "picket fence, paling"
  /\ results[1][2] > PrintThreshold

PersistGate_print_tier(results) ==
  /\ results[1][1] # "patio, terrace"
  /\ results[1][1] # "picket fence, paling"
  /\ results[1][2] > SaveThreshold

PersistGate_print_threshold(results) ==
  /\ results[1][1] # "patio, terrace"
  /\ results[1][1] # "picket fence, paling"
  /\ results[1][1] # "bannister, banister, balustrade, balusters, handrail"
  /\ results[1][1] # "lumbermill, sawmill"
  /\ results[1][2] > PrintThreshold

\* The condition of the save-and-alert branch.
PersistGate(results) ==
  /\ results[1][1] # "patio, terrace"
  /\ results[1][1] # "picket fence, paling"
  /\ results[1][1] # "bannister, banister, balustrade, balusters, handrail"
  /\ results[1][1] # "lumbermill, sawmill"
  /\ results[1][2] > SaveThreshold

SaveDue_ge(now, lastSave) == (now - lastSave) >= SaveInterval

SaveDue_alert_interval(now, lastSave) == (now - lastSave) > AlertInterval

\* (time.monotonic() - last_saveimg) > 2
SaveDue(now, lastSave) == (now - lastSave) > SaveInterval

AlertDue_ge(now, lastAlert, a) ==
  /\ (now - lastAlert) >= AlertInterval
  /\ Truthy(a.pushoverapitoken)
  /\ Truthy(a.pushoveruserkey)

AlertDue_one_credential(now, lastAlert, a) ==
  /\ (now - lastAlert) > AlertInterval
  /\ Truthy(a.pushoverapitoken)

AlertDue_no_credentials(now, lastAlert, a) ==
  (now - lastAlert) > AlertInterval

\* (time.monotonic() - last_alert) > 900 and args.pushoverapitoken and
\* args.pushoveruserkey
AlertDue(now, lastAlert, a) ==
  /\ (now - lastAlert) > AlertInterval
  /\ Truthy(a.pushoverapitoken)
  /\ Truthy(a.pushoveruserkey)

Raise_finally(f, now, lastSave, imgs) ==
  /\ clock' = now
  /\ last_saveimg' = lastSave
  /\ last_results' = f.results
  /\ last_time' = f.end_time
  /\ persisted' = imgs
  /\ fx' = f
  /\ nbranch' = IF f.save_now # NoTime THEN nbranch + 1 ELSE nbranch
  /\ nframes' = nframes + 1
  /\ UNCHANGED <<args, client, last_alert, alerted, tr>>

\* The callback ends by an exception: the two assignments at its end are not
\* reached.  The frame source goes on calling it.
Raise(f, now, lastSave, imgs) ==
  /\ clock' = now
  /\ last_saveimg' = lastSave
  /\ persisted' = imgs
  /\ fx' = f
  /\ nbranch' = IF f.save_now # NoTime THEN nbranch + 1 ELSE nbranch
  /\ nframes' = nframes + 1
  /\ UNCHANGED <<args, client, last_time, last_alert, last_results, alerted, tr>>

\* The callback runs to its end: last_results = results, last_time = end_time.
Return(f, now, lastSave, lastAlert, imgs, alerts) ==
  /\ clock' = now
  /\ last_saveimg' = lastSave
  /\ last_alert' = lastAlert
  /\ last_results' = f.results
  /\ last_time' = f.end_time
  /\ persisted' = imgs
  /\ alerted' = alerts
  /\ fx' = f
  /\ nbranch' = IF f.save_now # NoTime THEN nbranch + 1 ELSE nbranch
  /\ nframes' = nframes + 1
  /\ UNCHANGED <<args, client, tr>>

\* The alert step, reached at time `now` with last_saveimg = lastSave.
AlertStep(f, now, lastSave, imgs) ==
  IF ~AlertDue(now, last_alert, args)
  THEN Return([f EXCEPT !.alert_now = now], now, lastSave, last_alert,
              imgs, alerted)
  ELSE IF client = "unbound"
  THEN Raise([f EXCEPT !.alert_now = now, !.alert_called = TRUE,
                       !.err = "NameError"], now, lastSave, imgs)
  ELSE \E sd \in IoOutcomes(SendDurations) :
         IF ~sd.ok
         THEN Raise([f EXCEPT !.alert_now = now, !.alert_called = TRUE,
                              !.err = "SendError"],
                    now + sd.took, lastSave, imgs)
         ELSE Return([f EXCEPT !.alert_now = now, !.alert_called = TRUE,
                               !.sent = TRUE],
                     now + sd.took, lastSave, now + sd.took,
                     imgs, Append(alerted, now))

\* last_saveimg is stamped on every pass through the branch.
SaveStep_stamp_always(f, now) ==
  IF ~SaveDue(now, last_saveimg)
  THEN AlertStep([f EXCEPT !.save_now = now], now, now, persisted)
  ELSE \E sv \in IoOutcomes(SaveDurations) :
         IF ~sv.ok
         THEN Raise([f EXCEPT !.save_now = now, !.save_called = TRUE,
                              !.err = "SaveError"],
                    now + sv.took, last_saveimg, persisted)
         ELSE AlertStep([f EXCEPT !.save_now = now, !.save_called = TRUE,
                                  !.saved = TRUE],
                        now + sv.took, now + sv.took, Append(persisted, now))

\* last_saveimg is set to the clock value the guard read.
SaveStep_stamp_guard_time(f, now) ==
  IF ~SaveDue(now, last_saveimg)
  THEN AlertStep([f EXCEPT !.save_now = now], now, last_saveimg, persisted)
  ELSE \E sv \in IoOutcomes(SaveDurations) :
         IF ~sv.ok
         THEN Raise([f EXCEPT !.save_now = now, !.save_called = TRUE,
                              !.err = "SaveError"],
                    now + sv.took, last_saveimg, persisted)
         ELSE AlertStep([f EXCEPT !.save_now = now, !.save_called = TRUE,
                                  !.saved = TRUE],
                        now + sv.took, now, Append(persisted, now))

\* The save step, reached at time `now`.
SaveStep(f, now) ==
  IF ~SaveDue(now, last_saveimg)
  THEN AlertStep([f EXCEPT !.save_now = now], now, last_saveimg, persisted)
  ELSE \E sv \in IoOutcomes(SaveDurations) :
         IF ~sv.ok
         THEN Raise([f EXCEPT !.save_now = now, !.save_called = TRUE,
                              !.err = "SaveError"],
                    now + sv.took, last_saveimg, persisted)
         ELSE AlertStep([f EXCEPT !.save_now = now, !.save_called = TRUE,
                                  !.saved = TRUE],
                        now + sv.took, now + sv.took, Append(persisted, now))

user_callback ==
  /\ nframes < MaxFrames
  /\ \E gap \in Gaps, dInf \in InferDurations, raw \in RawResults :
       LET start_time == clock + gap
           end_time == start_time + dInf
           f0 == [NoFrame EXCEPT !.raw = raw, !.start_time = start_time,
                                 !.end_time = end_time,
                                 !.pre_time = last_time,
                                 !.pre_saveimg = last_saveimg,
                                 !.pre_alert = last_alert,
                                 !.pre_results = last_results]
       IN IF ~Labelled(raw)
          THEN Raise([f0 EXCEPT !.err = "KeyError"], end_time,
                     last_saveimg, persisted)
          ELSE LET results == interpret(raw)
               IN IF results = <<>>
                  THEN Raise([f0 EXCEPT !.err = "IndexError"], end_time,
                             last_saveimg, persisted)
                  ELSE LET f1 == [f0 EXCEPT !.results = results,
                                            !.printed = PrintGate(args, results)]
                       IN IF PersistGate(results)
                          THEN SaveStep(f1, end_time)
                          ELSE Return(f1, end_time, last_saveimg, last_alert,
                                      persisted, alerted)

Next == user_callback

Spec == Init /\ [][Next]_vars

\* ------------------------------------------------- do_training on its own
TrainLabels == {"A", "B", "C", "D", "E"}

\* Results as the classifier ranks them: one entry per class, at most
\* MaxResults of them.
TrainResults ==
  UNION { { [k \in 1..n |-> <<s[k], SaveThreshold + 1>>] :
            s \in { t \in [1..n -> TrainLabels] :
                      \A i, j \in 1..n : i # j => t[i] # t[j] } } :
          n \in 0..MaxResults }

TrainInit ==
  /\ args = [print |-> FALSE, training |-> TRUE,
             pushoverapitoken |-> NoneVal, pushoveruserkey |-> NoneVal]
  /\ client = main_client(args)
  /\ clock = StartClock
  /\ last_time = StartClock
  /\ last_saveimg = main_last_saveimg
  /\ last_alert = main_last_alert
  /\ last_results = main_last_results
  /\ nframes = 0
  /\ fx = NoFrame
  /\ nbranch = 0
  /\ persisted = <<>>
  /\ alerted = <<>>
  /\ tr \in [results : TrainResults, last_results : TrainResults,
              top_k : 1..DefaultTopK, ret : {"pending"}]

call_do_training ==
  /\ tr.ret = "pending"
  /\ tr' = [tr EXCEPT !.ret = do_training(tr.results, tr.last_results, tr.top_k)]
  /\ UNCHANGED <<args, client, clock, last_time, last_saveimg, last_alert,
                 last_results, nframes, fx, nbranch, persisted, alerted>>

TrainNext == call_do_training

SpecTraining == TrainInit /\ [][TrainNext]_vars

\* ------------------------------------------------------------- the claims
Ran == nframes > 0
HasTop(f) == f.results # <<>>
TopLabel(f) == f.results[1][1]
TopScore(f) == f.results[1][2]

PersistenceTierExcluded ==
  {"patio, terrace", "picket fence, paling",
   "bannister, banister, balustrade, balusters, handrail",
   "lumbermill, sawmill"}

\* The frame's top label passes the persistence-tier filter with score > 0.70.
Candidate(f) ==
  /\ HasTop(f)
  /\ TopLabel(f) \notin PersistenceTierExcluded
  /\ TopScore(f) > SaveThreshold

BothCredentialsGiven ==
  args.pushoverapitoken # NoneVal /\ args.pushoveruserkey # NoneVal

BothCredentialsNonEmpty ==
  Truthy(args.pushoverapitoken) /\ Truthy(args.pushoveruserkey)

\* C1: a frame does not call save_data when 2 seconds or less have passed
\* since last_saveimg at the time its guard reads the clock, and the
\* images written are pairwise more than 2 seconds apart.
C1_PersistThrottled ==
  /\ (Ran /\ fx.save_called) => (fx.save_now - fx.pre_saveimg) > SaveInterval
  /\ (Ran /\ Candidate(fx) /\ (fx.end_time - fx.pre_saveimg) <= SaveInterval)
       => (~fx.save_called /\ ~fx.saved /\ last_saveimg = fx.pre_saveimg)
  /\ \A i, j \in DOMAIN persisted :
       i < j => (persisted[j] - persisted[i]) > SaveInterval

\* A candidate frame exactly 2 seconds after the save of a persisting frame
\* that saves nothing.
C1_Witness ==
  /\ nframes = 2
  /\ Len(persisted) = 1
  /\ Candidate(fx)
  /\ (fx.save_now - fx.pre_saveimg) = SaveInterval
  /\ fx.pre_saveimg > StartClock
  /\ ~fx.save_called

\* C2: every candidate frame evaluated more than 2 seconds after
\* last_saveimg calls save_data, and unless the storage write raises the
\* image is written in that frame and last_saveimg is moved.
C2_PersistFires ==
  (Ran /\ Candidate(fx) /\ (fx.end_time - fx.pre_saveimg) > SaveInterval)
    => /\ fx.save_called
       /\ fx.err # "SaveError"
            => /\ fx.saved
               /\ Len(persisted) > 0
               /\ persisted[Len(persisted)] = fx.save_now
               /\ last_saveimg >= fx.save_now

\* A candidate frame 2.1 seconds after the save of a persisting frame that
\* writes a second image.
C2_Witness ==
  /\ nframes = 2
  /\ Len(persisted) = 2
  /\ Candidate(fx)
  /\ fx.pre_saveimg > StartClock
  /\ (fx.save_now - fx.pre_saveimg) = SaveInterval + 1
  /\ fx.saved

\* C3: a frame does not call send_alert when 900 seconds or less have
\* passed since last_alert at the time its guard reads the clock, and the
\* alerts sent are pairwise more than 900 seconds apart.
C3_AlertThrottled ==
  /\ (Ran /\ fx.alert_called) => (fx.alert_now - fx.pre_alert) > AlertInterval
  /\ (Ran /\ fx.alert_now # NoTime
          /\ (fx.alert_now - fx.pre_alert) <= AlertInterval)
       => (~fx.alert_called /\ ~fx.sent /\ last_alert = fx.pre_alert)
  /\ \A i, j \in DOMAIN alerted :
       i < j => (alerted[j] - alerted[i]) > AlertInterval

\* A candidate frame, credentials set, exactly 900 seconds after an alert,
\* that sends nothing.
C3_Witness ==
  /\ nframes = 2
  /\ Len(alerted) = 1
  /\ BothCredentialsNonEmpty
  /\ Candidate(fx)
  /\ fx.pre_alert > StartClock
  /\ (fx.alert_now - fx.pre_alert) = AlertInterval
  /\ ~fx.alert_called

\* C4: with both credentials given (the client was created), every
\* candidate frame evaluated more than 900 seconds after last_alert calls
\* send_alert in that frame.
C4_AlertFires ==
  (Ran /\ BothCredentialsGiven /\ Candidate(fx)
       /\ (fx.end_time - fx.pre_alert) > AlertInterval)
    => fx.alert_called

\* C5: a frame whose top label is in the persistence-tier exclusion set
\* neither saves an image nor sends an alert, whatever the score and the
\* timers.
C5_ExcludedLabelNoEffect ==
  (Ran /\ HasTop(fx) /\ TopLabel(fx) \in PersistenceTierExcluded)
    => /\ ~fx.save_called /\ ~fx.saved
       /\ ~fx.alert_called /\ ~fx.sent
       /\ last_saveimg = fx.pre_saveimg
       /\ last_alert = fx.pre_alert

\* A high-score frame of a label only the persistence tier excludes, with
\* both cool-downs over and the credentials set.
C5_Witness ==
  /\ Ran
  /\ HasTop(fx)
  /\ TopLabel(fx) = "lumbermill, sawmill"
  /\ TopScore(fx) > SaveThreshold
  /\ BothCredentialsNonEmpty
  /\ (fx.end_time - fx.pre_saveimg) > SaveInterval
  /\ (fx.end_time - fx.pre_alert) > AlertInterval
  /\ ~fx.save_called

\* C6: a frame whose top score is at most 0.70 neither saves an image nor
\* sends an alert, even with a label that passes the filter and both
\* cool-downs over.
C6_LowScoreNoEffect ==
  (Ran /\ HasTop(fx) /\ TopScore(fx) <= SaveThreshold)
    => /\ ~fx.save_called /\ ~fx.saved
       /\ ~fx.alert_called /\ ~fx.sent
       /\ last_saveimg = fx.pre_saveimg
       /\ last_alert = fx.pre_alert

\* A frame with a passing label and score exactly 0.70, both cool-downs
\* over, the credentials set.
C6_Witness ==
  /\ Ran
  /\ HasTop(fx)
  /\ TopLabel(fx) \notin PersistenceTierExcluded
  /\ TopScore(fx) = SaveThreshold
  /\ BothCredentialsNonEmpty
  /\ (fx.end_time - fx.pre_saveimg) > SaveInterval
  /\ (fx.end_time - fx.pre_alert) > AlertInterval
  /\ ~fx.save_called

\* C7: in training mode no frame saves an image by rule 3 or sends an alert
\* by rule 4.
C7_TrainingReplacesRules ==
  (Ran /\ args.training) => (~fx.save_called /\ ~fx.alert_called)

\* C8: with a credential absent no frame sends an alert, last_alert keeps
\* its startup value, the alert branch raises nothing, and a candidate
\* frame past the save cool-down still writes its image and runs to its
\* end unless the storage write itself raises.
C8_NoCredentialNoAlert ==
  ~BothCredentialsGiven
    => /\ alerted = <<>>
       /\ last_alert = main_last_alert
       /\ Ran => /\ ~fx.alert_called
                 /\ ~fx.sent
                 /\ fx.err \notin {"NameError", "SendError"}
       /\ (Ran /\ Candidate(fx)
               /\ (fx.end_time - fx.pre_saveimg) > SaveInterval
               /\ fx.err # "SaveError")
            => /\ fx.saved
               /\ fx.err = "none"
               /\ last_results = fx.results

\* A candidate frame past both cool-downs with one credential absent and
\* the other set: the image is written, no alert is tried.
C8_Witness ==
  /\ Ran
  /\ args.pushoverapitoken = NoneVal
  /\ Truthy(args.pushoveruserkey)
  /\ Candidate(fx)
  /\ (fx.end_time - fx.pre_alert) > AlertInterval
  /\ fx.saved
  /\ fx.err = "none"
  /\ ~fx.alert_called

SharedLabels(t) ==
  {l \in TrainLabels :
     /\ \E k \in 1..Len(t.results) : t.results[k][1] = l
     /\ \E k \in 1..Len(t.last_results) : t.last_results[k][1] = l}

LabelSet(results) == {results[k][1] : k \in 1..Len(results)}

C10_FirstFramePersists ==
  (Ran /\ Candidate(fx) /\ nbranch = 1) => fx.save_called

\* C10: the first candidate frame after startup calls save_data exactly
\* when it is evaluated more than 2 seconds after startup, where
\* last_saveimg was set to the clock.
C10_FirstFrameAfterCoolDown ==
  (Ran /\ Candidate(fx) /\ nbranch = 1)
    => (fx.save_called <=> (fx.end_time - StartClock) > SaveInterval)

\* The first callback, with a candidate frame 2 seconds after startup,
\* that saves nothing.
C10_Witness ==
  /\ nframes = 1
  /\ nbranch = 1
  /\ Candidate(fx)
  /\ (fx.end_time - StartClock) = SaveInterval
  /\ ~fx.save_called

\* C11: when the storage write (resp. the send) fails in a frame whose save
\* (resp. alert) guard held, last_saveimg (resp. last_alert) is still moved
\* to a clock value of that frame.
C11_FailureAdvancesTimer ==
  /\ (Ran /\ fx.save_called /\ fx.err = "SaveError")
       => last_saveimg >= fx.save_now
  /\ (Ran /\ fx.alert_called /\ fx.err = "SendError")
       => last_alert >= fx.alert_now

\* C12: a frame with an empty result prints, saves and alerts nothing, and
\* last_time and last_results are set to that frame's end time and result.
C12_EmptyResultSkipsEffects ==
  (Ran /\ fx.raw = <<>>)
    => /\ ~fx.printed /\ ~fx.save_called /\ ~fx.alert_called
       /\ last_time = fx.end_time
       /\ last_results = <<>>

HasUnknownId(f) == \E k \in 1..Len(f.raw) : f.raw[k][1] \notin 1..Len(labels)

\* C13: a frame whose raw result holds a class id missing from the label
\* map prints, saves and alerts nothing and leaves last_time, last_saveimg,
\* last_alert and last_results as they were.
C13_UnknownIdLeavesState ==
  (Ran /\ HasUnknownId(fx))
    => /\ ~fx.printed
       /\ ~fx.save_called /\ ~fx.saved
       /\ ~fx.alert_called /\ ~fx.sent
       /\ last_time = fx.pre_time
       /\ last_saveimg = fx.pre_saveimg
       /\ last_alert = fx.pre_alert
       /\ last_results = fx.pre_results

\* A second frame with an unknown class id and a high score, both
\* cool-downs over, printing on, after a frame that set last_results.
C13_Witness ==
  /\ nframes = 2
  /\ HasUnknownId(fx)
  /\ fx.raw[1][2] > SaveThreshold
  /\ args.print
  /\ BothCredentialsNonEmpty
  /\ fx.err = "KeyError"
  /\ (fx.end_time - fx.pre_saveimg) > SaveInterval
  /\ (fx.end_time - fx.pre_alert) > AlertInterval
  /\ fx.pre_results # main_last_results
  /\ last_results = fx.pre_results

\* C14: after every frame with a non-empty labelled result, last_results is
\* that result and last_time that frame's inference end time.
C14_EndOfFrameUpdate ==
  (Ran /\ HasTop(fx))
    => /\ last_results = fx.results
       /\ last_time = fx.end_time

PrintTierExcluded == {"patio, terrace", "picket fence, paling"}

\* C15: with printing on, every frame whose top label is outside the print
\* tier's two labels and whose score is > 0.65 prints, whatever the timers;
\* a frame of a label only the persistence tier excludes prints and neither
\* saves nor alerts.
C15_PrintUnthrottled ==
  /\ (Ran /\ args.print /\ HasTop(fx)
          /\ TopLabel(fx) \notin PrintTierExcluded
          /\ TopScore(fx) > PrintThreshold)
       => fx.printed
  /\ (Ran /\ args.print /\ HasTop(fx)
          /\ TopLabel(fx) \in PersistenceTierExcluded \ PrintTierExcluded
          /\ TopScore(fx) > PrintThreshold)
       => (fx.printed /\ ~fx.save_called /\ ~fx.alert_called)

\* A lumbermill frame with a high score prints one inference time after a
\* frame that printed, inside the save cool-down, and saves nothing.
C15_Witness ==
  /\ nframes = 2
  /\ args.print
  /\ HasTop(fx)
  /\ TopLabel(fx) = "lumbermill, sawmill"
  /\ TopScore(fx) > SaveThreshold
  /\ fx.pre_results # main_last_results
  /\ fx.pre_saveimg > StartClock
  /\ (fx.end_time - fx.pre_saveimg) <= SaveInterval
  /\ fx.printed
  /\ ~fx.save_called

\* C16 as claimed: every frame that sends an alert also writes an image in
\* that frame.
C16_AlertImpliesPersist ==
  (Ran /\ fx.sent) => fx.saved

\* C16: every frame that calls send_alert has a top label that passes the
\* persistence-tier filter with score > 0.70 and is more than 900 seconds
\* past last_alert; the 2-second save guard is not part of it.
C16_AlertImpliesCandidate ==
  (Ran /\ fx.alert_called)
    => /\ Candidate(fx)
       /\ (fx.alert_now - fx.pre_alert) > AlertInterval

\* A frame that sends an alert while the save is throttled.
C16_Witness ==
  /\ Ran
  /\ fx.sent
  /\ ~fx.save_called
  /\ (fx.save_now - fx.pre_saveimg) <= SaveInterval

\* C17: last_saveimg changes in a frame only if the frame wrote an image,
\* last_alert only if the frame sent an alert; filtered, low-score and
\* throttled frames change neither.
C17_TimerOwnEffectOnly ==
  Ran => /\ (last_saveimg # fx.pre_saveimg) => fx.saved
         /\ (last_alert # fx.pre_alert) => fx.sent
         /\ (fx.saved /\ ~fx.sent) => last_alert = fx.pre_alert
         /\ (fx.sent /\ ~fx.saved) => last_saveimg = fx.pre_saveimg
         /\ (~HasTop(fx) \/ ~Candidate(fx))
              => (last_saveimg = fx.pre_saveimg /\ last_alert = fx.pre_alert)

\* A candidate frame, throttled for the save, that sends an alert:
\* last_alert moves and last_saveimg does not.
C17_Witness ==
  /\ Ran
  /\ Candidate(fx)
  /\ fx.sent
  /\ ~fx.saved
  /\ last_alert # fx.pre_alert
  /\ last_saveimg = fx.pre_saveimg

\* C18 as claimed: the timestamp stored is the clock value its guard read.
C18_StampIsGuardTime ==
  /\ (Ran /\ fx.saved) => last_saveimg = fx.save_now
  /\ (Ran /\ fx.sent) => last_alert = fx.alert_now

\* C18: the timestamp stored is the clock read after the save (resp. the
\* send) returned: never before the value the guard read, and the value
\* the next read of the clock gives.
C18_StampIsTimeAfterEffect ==
  /\ (Ran /\ fx.saved)
       => (last_saveimg >= fx.save_now /\ last_saveimg = fx.alert_now)
  /\ (Ran /\ fx.sent)
       => (last_alert >= fx.alert_now /\ last_alert = clock)

\* A frame whose save took time: last_saveimg is later than the value the
\* save guard read.
C18_Witness ==
  /\ Ran
  /\ fx.saved
  /\ last_saveimg > fx.save_now
  /\ last_saveimg = fx.alert_now

\* C19: for two results with the same label set, also with fewer than top_k
\* labels, do_training does not return a true value.
C19_SameLabelsNoDifference ==
  (tr.ret # "pending" /\ LabelSet(tr.results) = LabelSet(tr.last_results))
    => ~RetTruthy(tr.ret)

\* C20: send_alert is never called with the client unbound: whatever the
\* two credentials are, a frame that reaches the call finds the client main
\* created, and no frame ends by a NameError.
C20_AlertUsesCreatedClient ==
  /\ Ran => fx.err # "NameError"
  /\ (Ran /\ fx.alert_called)
       => (client = "Client" /\ BothCredentialsGiven)
  /\ (client = "unbound") => alerted = <<>>

\* A frame that called send_alert with the client main created.
C20_Witness ==
  /\ Ran
  /\ fx.alert_called
  /\ fx.sent
  /\ client = "Client"
  /\ alerted # <<>>

====
